---- MODULE Spec2Model ----
(***************************************************************************)
(* Model of the GPMF decoder of src/parser.py (the decode loop of main,    *)
(* read_bytes, json_add_key, json_add_value, handle_types and the byte     *)
(* converters).                                                            *)
(*                                                                         *)
(* Bytes are integers 0..255.  Text is a sequence of character codes.      *)
(* The input file is read lazily: every read draws the bytes it returns    *)
(* from the alphabets of the input class chosen in Init, and the file may  *)
(* end inside any step.  A read at the end of the file returns fewer       *)
(* bytes, as file.read does, and every later read returns none.            *)
(***************************************************************************)
EXTENDS Integers, Sequences, FiniteSets, TLC

VARIABLES
    pc,           \* "Running" (inside while True), "Done" (after break and json.dump), "Failed" (uncaught exception)
    hierarchy,    \* parser.py:28, the stack of open frames
    python_json,  \* parser.py:29, the output tree
    eof,          \* the input file is exhausted: every further read returns b''
    class,        \* the name of the input class: the bytes the file is made of
    file,         \* history: the bytes file.read has returned so far
    requested,    \* history: sum of the amounts passed to read_bytes
    starts,       \* history: per open frame, the value of requested when it was pushed
    origin,       \* history: per open frame, the type byte of its header and the place in the tree of the node its header added
    closed,       \* history: the frames the last step removed, with the bytes read while each was open
    lastRead,     \* history: per frame open during the last step, how much that step took from its remaining count
    hdrBytes,     \* history: how many bytes the last header read obtained from the file
    flags,        \* history: facts about the run the claims speak of, the number of nodes added, the stack depth after the last header
    xpc,          \* stream_exporter.py: where its main is: "Off" (not run), "Loaded", "Listed", "NoData", "Exported", "Failed"
    streams,      \* stream_exporter.py:152, the list extract_streams returned
    output_json   \* stream_exporter.py:160, the export of the selected stream

vars == <<pc, hierarchy, python_json, eof, class, file, requested, starts,
          origin, closed, lastRead, hdrBytes, flags, xpc, streams, output_json>>

\* the state of the decoder
pvars == <<pc, hierarchy, python_json, eof, class, file, requested, starts,
           origin, closed, lastRead, hdrBytes, flags>>

\* the state of the exporter
xvars == <<xpc, streams, output_json>>

----------------------------------------------------------------------------
(* Bounds *)

MaxFile == 32

\* the decode is followed until this many bytes were asked of the file
MaxRequested == 48

----------------------------------------------------------------------------
(* Character codes *)

NUL == 0
Chr0 == 48
ChrDot == 46
ChrSpace == 32
ChrColon == 58
Chr2 == 50
Chr_b == 98
Chr_B == 66
Chr_c == 99
Chr_d == 100
Chr_f == 102
Chr_j == 106
Chr_J == 74
Chr_l == 108
Chr_L == 76
Chr_s == 115
Chr_S == 83
Chr_U == 85
Chr_q == 113

Min(a, b) == IF a < b THEN a ELSE b

Max(a, b) == IF a < b THEN b ELSE a

SetMax(S) == CHOOSE x \in S : \A y \in S : y <= x

RECURSIVE Pow256(_)
Pow256(n) == IF n = 0 THEN 1 ELSE 256 * Pow256(n - 1)

\* math.ceil(x / 4) * 4 for an integer x >= 0
Ceil4(x) == ((x + 3) \div 4) * 4

----------------------------------------------------------------------------
(* read_bytes: the bookkeeping of one call, nested padding reads included. *)
(* The result is the new hierarchy and the total amount asked of the file. *)

RECURSIVE read_bytes(_, _), ReadLoop(_, _, _, _), ReadLoopTopOnly(_, _, _, _)

\* mutant of ReadLoop: only the innermost frame is charged for a read
ReadLoopTopOnly(h, amount, i, req) ==
    IF i > Len(h) THEN [h |-> h, req |-> req]
    ELSE LET h1 == IF i = Len(h) THEN [h EXCEPT ![i].remaining = @ - amount] ELSE h
             padding_bytes == Ceil4(h1[i].total) - h1[i].total
         IN IF h1[i].remaining = padding_bytes /\ padding_bytes # 0 /\ i = Len(h)
            THEN LET r == read_bytes(h1, padding_bytes)
                 IN ReadLoopTopOnly(r.h, amount, i + 1, req + r.req)
            ELSE ReadLoopTopOnly(h1, amount, i + 1, req)

\* the for loop of read_bytes from frame i on; req is what this call and its
\* nested calls have asked of the file so far
ReadLoop(h, amount, i, req) ==
    IF i > Len(h) THEN [h |-> h, req |-> req]
    ELSE LET h1 == [h EXCEPT ![i].remaining = @ - amount]
             padding_bytes == Ceil4(h1[i].total) - h1[i].total
         IN IF h1[i].remaining = padding_bytes /\ padding_bytes # 0
            THEN LET r == read_bytes(h1, padding_bytes)
                 IN ReadLoop(r.h, amount, i + 1, req + r.req)
            ELSE ReadLoop(h1, amount, i + 1, req)

read_bytes(h, amount) == ReadLoop(h, amount, 1, amount)

----------------------------------------------------------------------------
(* The tree.  A node is [kind |-> "key", name, Type, Size, Repeat, Values]; *)
(* a decoded value is [kind |-> "str" | "num" | "list", v].                 *)

\* key_info of json_add_key
KeyInfo(key_name, key_type, key_size, key_repeat) ==
    [kind |-> "key", name |-> key_name, Type |-> key_type, Size |-> key_size,
     Repeat |-> key_repeat, Values |-> <<>>]

\* mutant of NewFrame: the remaining count is not rounded up to 4 bytes
NewFrameNoRoundUp(key_name, key_type, key_size, key_repeat) ==
    [name |-> key_name, type |-> key_type, size |-> key_size, repeat |-> key_repeat,
     total |-> key_size * key_repeat, remaining |-> key_size * key_repeat]

\* the frame json_add_key pushes: [key_name, key_type, key_size, key_repeat,
\* key_size * key_repeat, math.ceil(key_size * key_repeat / 4) * 4]
NewFrame(key_name, key_type, key_size, key_repeat) ==
    [name |-> key_name, type |-> key_type, size |-> key_size, repeat |-> key_repeat,
     total |-> key_size * key_repeat, remaining |-> Ceil4(key_size * key_repeat)]

IsSubstring(k, s) ==
    \E i \in 0..(Len(s) - Len(k)) : SubSeq(s, i + 1, i + Len(k)) = k

\* Python's  key in item : a dict has the key, a str contains it, a list of
\* numbers never holds a str; on a bare number it raises TypeError
KeyIn(k, item) ==
    CASE item.kind = "key" -> item.name = k
      [] item.kind = "str" -> IsSubstring(k, item.v)
      [] OTHER -> FALSE

\* the indices of  [item for item in last_key if key[0] in item]
Matches(last_key, k) == {i \in 1..Len(last_key) : KeyIn(k, last_key[i])}

\* one step of the traversal raises: TypeError on a bare number in the list,
\* IndexError when nothing matches, TypeError when the last match is a str
StepRaises(last_key, k) ==
    \/ \E i \in 1..Len(last_key) : last_key[i].kind = "num"
    \/ Matches(last_key, k) = {}
    \/ last_key[SetMax(Matches(last_key, k))].kind # "key"

\* the traversal  for key in hierarchy: last_key = [...][-1][key[0]]["Values"]
\* raises somewhere along the path of frame names
RECURSIVE PathRaises(_, _)
PathRaises(last_key, path) ==
    IF path = <<>> THEN FALSE
    ELSE \/ StepRaises(last_key, path[1])
         \/ PathRaises(last_key[SetMax(Matches(last_key, path[1]))].Values, Tail(path))

\* last_key.append(item) at the end of the traversal
RECURSIVE AppendAt(_, _, _)
AppendAt(last_key, path, item) ==
    IF path = <<>> THEN Append(last_key, item)
    ELSE LET i == SetMax(Matches(last_key, path[1]))
         IN [last_key EXCEPT ![i].Values = AppendAt(@, Tail(path), item)]

\* the list the traversal ends at
RECURSIVE ListAt(_, _)
ListAt(last_key, path) ==
    IF path = <<>> THEN last_key
    ELSE ListAt(last_key[SetMax(Matches(last_key, path[1]))].Values, Tail(path))

\* the place of the node the traversal ends at: at every depth the index of
\* the item it takes
RECURSIVE IndexPath(_, _)
IndexPath(last_key, path) ==
    IF path = <<>> THEN <<>>
    ELSE LET i == SetMax(Matches(last_key, path[1]))
         IN <<i>> \o IndexPath(last_key[i].Values, Tail(path))

Names(h) == [i \in 1..Len(h) |-> h[i].name]

\* mutant of json_add_key: a tag that already has a node in the list gets no
\* second node
json_add_key_merge(tree, h, key_name, key_type, key_size, key_repeat) ==
    IF PathRaises(tree, Names(h))
    THEN [raised |-> TRUE, tree |-> tree, h |-> h]
    ELSE [raised |-> FALSE,
          tree |-> IF Matches(ListAt(tree, Names(h)), key_name) # {} THEN tree
                   ELSE AppendAt(tree, Names(h),
                                 KeyInfo(key_name, key_type, key_size, key_repeat)),
          h |-> Append(h, NewFrame(key_name, key_type, key_size, key_repeat))]

\* json_add_key: the new tree and the new hierarchy, or raised
json_add_key(tree, h, key_name, key_type, key_size, key_repeat) ==
    IF PathRaises(tree, Names(h))
    THEN [raised |-> TRUE, tree |-> tree, h |-> h]
    ELSE [raised |-> FALSE,
          tree |-> AppendAt(tree, Names(h),
                            KeyInfo(key_name, key_type, key_size, key_repeat)),
          h |-> Append(h, NewFrame(key_name, key_type, key_size, key_repeat))]

\* json_add_value: the new tree, or raised
json_add_value(tree, h, value) ==
    IF PathRaises(tree, Names(h))
    THEN [raised |-> TRUE, tree |-> tree]
    ELSE [raised |-> FALSE, tree |-> AppendAt(tree, Names(h), value)]

----------------------------------------------------------------------------
(* The byte converters *)

\* int.from_bytes(b, byteorder="big"); 0 for the empty byte string
RECURSIVE FromBytes(_)
FromBytes(b) ==
    IF b = <<>> THEN 0
    ELSE 256 * FromBytes(SubSeq(b, 1, Len(b) - 1)) + b[Len(b)]

\* int.from_bytes(b, byteorder="big", signed=True)
FromBytesSigned(b) ==
    LET u == FromBytes(b)
    IN IF b # <<>> /\ b[1] >= 128 THEN u - Pow256(Len(b)) ELSE u

\* rstrip('\0')
RECURSIVE RStripNul(_)
RStripNul(s) ==
    IF s # <<>> /\ s[Len(s)] = NUL THEN RStripNul(SubSeq(s, 1, Len(s) - 1)) ELSE s

IsAscii(b) == \A i \in 1..Len(b) : b[i] < 128

\* bytes_to_string(data): one character per byte, chr of the byte's value
bytes_to_string(data) == [i \in 1..Len(data) |-> data[i]]

\* one element of bytes_to_number; a float or double stays its IEEE bit pattern
Unpack(chunk, signed, dtype) ==
    IF dtype = "int"
    THEN (IF signed THEN FromBytesSigned(chunk) ELSE FromBytes(chunk))
    ELSE <<dtype, chunk>>

\* bytes_to_number raises ValueError
NumberRaises(data, bytes_per_number) == Len(data) % bytes_per_number # 0

\* bytes_to_number(data, bytes_per_number, signed, dtype)
bytes_to_number(data, bytes_per_number, signed, dtype) ==
    [i \in 1..(Len(data) \div bytes_per_number) |->
        Unpack(SubSeq(data, (i - 1) * bytes_per_number + 1, i * bytes_per_number),
               signed, dtype)]

\* Python's s[a:b] on a str, 0-based, clamped to the length
Slice(s, a, b) == SubSeq(s, a + 1, Min(b, Len(s)))

\* the f-string of type U
TimeString(t) ==
    Slice(t, 4, 6) \o <<ChrDot>> \o Slice(t, 2, 4) \o <<ChrDot, Chr2, Chr0>>
    \o Slice(t, 0, 2) \o <<ChrSpace>> \o Slice(t, 6, 8) \o <<ChrColon>>
    \o Slice(t, 8, 10) \o <<ChrColon>> \o Slice(t, 10, 12) \o <<ChrDot>>
    \o Slice(t, 13, 16)

IntTypes == {<<Chr_b>>, <<Chr_B>>, <<Chr_j>>, <<Chr_J>>, <<Chr_l>>, <<Chr_L>>,
             <<Chr_s>>, <<Chr_S>>}

FloatTypes == {<<Chr_d>>, <<Chr_f>>}

TextTypes == {<<Chr_c>>, <<Chr_U>>}

\* the bytes_per_number the elif chain of handle_types passes
Width(type_code) ==
    CASE type_code \in {<<Chr_b>>, <<Chr_B>>} -> 1
      [] type_code \in {<<Chr_s>>, <<Chr_S>>} -> 2
      [] type_code \in {<<Chr_l>>, <<Chr_L>>, <<Chr_f>>} -> 4
      [] type_code \in {<<Chr_j>>, <<Chr_J>>, <<Chr_d>>} -> 8
      [] OTHER -> 1

Signed(type_code) == type_code \in {<<Chr_b>>, <<Chr_j>>, <<Chr_l>>, <<Chr_s>>}

Dtype(type_code) ==
    CASE type_code = <<Chr_d>> -> "double"
      [] type_code = <<Chr_f>> -> "float"
      [] OTHER -> "int"

\* the elif chain of handle_types raises: the else branch, or bytes_to_number
DecodeRaises(type_code, data) ==
    \/ type_code \notin IntTypes \cup FloatTypes \cup TextTypes
    \/ type_code \in IntTypes \cup FloatTypes /\ NumberRaises(data, Width(type_code))

\* value of the elif chain: a str (text) or a list (numbers)
Decode(type_code, data) ==
    CASE type_code = <<Chr_c>> -> [text |-> TRUE, v |-> bytes_to_string(data)]
      [] type_code = <<Chr_U>> -> [text |-> TRUE, v |-> TimeString(bytes_to_string(data))]
      [] OTHER -> [text |-> FALSE,
                   v |-> bytes_to_number(data, Width(type_code), Signed(type_code),
                                         Dtype(type_code))]

\* value if len(value) > 1 else value[0]  raises IndexError
FlattenRaises(value) == Len(value.v) = 0

\* value if len(value) > 1 else value[0] : value[0] of a str is a str of one
\* character, value[0] of a list is the bare element
Flatten(value) ==
    IF value.text THEN [kind |-> "str", v |-> IF Len(value.v) > 1 THEN value.v ELSE <<value.v[1]>>]
    ELSE IF Len(value.v) > 1 THEN [kind |-> "list", v |-> value.v]
    ELSE [kind |-> "num", v |-> value.v[1]]

\* mutant of ElementSize: the whole payload is read at once
ElementSizeWhole(top) == top.total

\* the amount handle_types reads: hierarchy[-1][2], the size of one element
ElementSize(top) == top.size

\* hierarchy[:] = [h for h in hierarchy if h[5] != 0] : the indices kept
Kept(h) == {i \in 1..Len(h) : h[i].remaining # 0}

RECURSIVE SelectIdx(_, _, _)
SelectIdx(s, keep, i) ==
    IF i > Len(s) THEN <<>>
    ELSE (IF i \in keep THEN <<s[i]>> ELSE <<>>) \o SelectIdx(s, keep, i + 1)

----------------------------------------------------------------------------------------------------------------------------------------------------------------------------------------------------
(* The input classes.  A class names the 8-byte headers and the payload     *)
(* bytes a file of the class is made of, and how much shorter than MaxFile  *)
(* its files are.  A class may name whole elements (words) instead of       *)
(* single payload bytes.                                                    *)

DEVC == <<68, 69, 86, 67>>

GPSU == <<71, 80, 83, 85>>

\* the payload of the nesting example, the text TEST
TEST == <<84, 69, 83, 84>>

\* a type byte that is no ASCII character
NonAsciiTypes == {200}

\* the 8 bytes of a header: tag, type byte, size byte, big-endian repeat
Hdr(tag, t, s, r) == [tag |-> tag, type |-> t, size |-> s, repeat |-> <<r \div 256, r % 256>>]

\* every header over one tag, container or text, with payloads of
\* 0, 1, 3, 4, 9 and 12 bytes
ClassGen ==
    [headers |-> {Hdr(DEVC, t, s, r) : t \in {NUL, Chr_c}, s \in {0, 1, 3}, r \in {0, 1, 3, 4}},
     data |-> {NUL}, words |-> {}, slack |-> 12]

\* containers of 12 and 11 bytes around a leaf of 3 bytes, empty records and
\* the sentinel
ClassWell ==
    [headers |-> {Hdr(DEVC, NUL, 3, 4), Hdr(DEVC, NUL, 11, 1), Hdr(GPSU, Chr_c, 3, 1),
                  Hdr(GPSU, Chr_c, 1, 0), Hdr(DEVC, NUL, 0, 1), Hdr(DEVC, NUL, 0, 0)},
     data |-> {NUL}, words |-> {}, slack |-> 4]

\* the text TEST in a container
ClassText ==
    [headers |-> {Hdr(DEVC, NUL, 3, 4), Hdr(GPSU, Chr_c, 1, 4)},
     data |-> {TEST[i] : i \in 1..4}, words |-> {}, slack |-> 12]

\* one tag twice under a container
ClassTwice ==
    [headers |-> {Hdr(DEVC, NUL, 3, 8), Hdr(GPSU, Chr_c, 1, 1), Hdr(GPSU, Chr_c, 1, 2)},
     data |-> {TEST[1], TEST[2]}, words |-> {}, slack |-> 0]

\* type bytes in and out of the dispatch table
ClassTypes ==
    [headers |-> {Hdr(GPSU, Chr0, 1, 4), Hdr(GPSU, Chr_q, 1, 1), Hdr(GPSU, Chr_q, 0, 1),
                  Hdr(GPSU, Chr_B, 2, 1), Hdr(GPSU, Chr_B, 1, 2), Hdr(GPSU, NUL, 0, 0)}
                 \cup {Hdr(GPSU, t, 1, 1) : t \in NonAsciiTypes},
     data |-> {1}, words |-> {}, slack |-> 12]

\* the payload of the round-trip example: 1, 2 and 3 as 32-bit integers
Word123 == <<0, 0, 0, 1>> \o <<0, 0, 0, 2>> \o <<0, 0, 0, 3>>

\* integer leaves whose size is the width of their type, at the top level and
\* in a container of 9 bytes
ClassInts ==
    [headers |-> {Hdr(GPSU, Chr_L, 4, 3), Hdr(GPSU, Chr_s, 2, 1), Hdr(GPSU, Chr_S, 2, 2),
                  Hdr(GPSU, Chr_B, 1, 4), Hdr(DEVC, NUL, 3, 3), Hdr(GPSU, NUL, 0, 0)},
     data |-> {},
     words |-> {SubSeq(Word123, 4 * i - 3, 4 * i) : i \in 1..3} \cup {<<255, 254>>, <<1, 2>>, <<7>>},
     slack |-> 4]

\* leaves whose size is no multiple of the width of their type, and one whose
\* size is
ClassSizes ==
    [headers |-> {Hdr(GPSU, Chr_U, 3, 1), Hdr(GPSU, Chr_U, 3, 0), Hdr(GPSU, Chr_S, 3, 1),
                  Hdr(GPSU, Chr_L, 2, 1), Hdr(GPSU, Chr_S, 2, 1), Hdr(GPSU, NUL, 0, 0)},
     data |-> {1}, words |-> {}, slack |-> 12]

\* a leaf GPSU at the top level, then a container of 9 bytes around a leaf
\* GPSU of 8
ClassCross ==
    [headers |-> {Hdr(GPSU, Chr_c, 1, 4), Hdr(GPSU, Chr_U, 0, 1), Hdr(DEVC, NUL, 3, 3),
                  Hdr(GPSU, Chr_c, 1, 8)},
     data |-> {NUL}, words |-> {}, slack |-> 0]

Classes == {"Gen", "Well", "Text", "Twice", "Types", "Ints", "Sizes", "Cross"}

\* the class of the input file
Input ==
    CASE class = "Gen" -> ClassGen
      [] class = "Well" -> ClassWell
      [] class = "Text" -> ClassText
      [] class = "Twice" -> ClassTwice
      [] class = "Types" -> ClassTypes
      [] class = "Ints" -> ClassInts
      [] class = "Sizes" -> ClassSizes
      [] class = "Cross" -> ClassCross

\* the places inside a header where the file may end
HeaderCuts == {0, 5, 6}

RECURSIVE SeqsOf(_, _)
SeqsOf(S, n) ==
    IF n = 0 THEN {<<>>}
    ELSE {Append(q, x) : q \in SeqsOf(S, n - 1), x \in S}

\* n padding bytes of the file
Zeros(n) == [i \in 1..n |-> NUL]

\* what file.read(amount) returns of the bytes b the file holds next
FileRead(b, have) == SubSeq(b, 1, Min(Len(b), have))

Left(have, req) == Max(0, have - req)

\* the bytes file.read returns to a read of amount bytes when the file holds
\* have bytes more: payload bytes of the class, or an element of the class
Payloads(amount, have) ==
    SeqsOf(Input.data, Min(amount, have))
    \cup {FileRead(w, have) : w \in {v \in Input.words : Len(v) = amount}}

\* how many bytes the file holds for a step that asks for asked bytes: all of
\* them, or fewer when the file ends inside the step
Haves(asked, cuts) ==
    IF eof THEN {0}
    ELSE {k \in cuts : k < asked}
         \cup (IF Len(file) + asked <= MaxFile - Input.slack THEN {asked} ELSE {})

NoFlags == [shortRead |-> FALSE, shortValue |-> FALSE, truncated |-> FALSE,
            badType |-> FALSE, keys |-> 0, depth |-> 0]

SupportedBytes == {Chr_b, Chr_B, Chr_s, Chr_S, Chr_l, Chr_L, Chr_j, Chr_J,
                   Chr_f, Chr_d, Chr_c, Chr_U}

ContainerType == <<Chr0>>

\* not hierarchy or hierarchy[-1][1] == '0'
HeaderDue(h) == IF h = <<>> THEN TRUE ELSE h[Len(h)].type = ContainerType

Init ==
    /\ pc = "Running"
    /\ hierarchy = <<>>
    /\ python_json = <<>>
    /\ eof = FALSE
    /\ class \in Classes
    /\ file = <<>>
    /\ requested = 0
    /\ starts = <<>>
    /\ origin = <<>>
    /\ closed = {}
    /\ lastRead = [asked |-> 0, dec |-> <<>>]
    /\ hdrBytes = 0
    /\ flags = NoFlags
    /\ xpc = "Off"
    /\ streams = <<>>
    /\ output_json = <<>>

\* per frame of h0, how much of its remaining count the step took
Decrements(h0, h1) == [i \in 1..Len(h0) |-> h0[i].remaining - h1[i].remaining]

\* the header branch of the loop of main: the four reads, the test for the
\* sentinel, json_add_key
ReadHeader ==
    /\ pc = "Running"
    /\ requested <= MaxRequested
    /\ UNCHANGED xvars
    /\ HeaderDue(hierarchy)
    /\ LET r1 == read_bytes(hierarchy, 4)
           r2 == read_bytes(r1.h, 1)
           r3 == read_bytes(r2.h, 1)
           r4 == read_bytes(r3.h, 2)
           asked == r1.req + r2.req + r3.req + r4.req
       IN \E have \in Haves(asked, HeaderCuts) :
          \E hd \in Input.headers :
            LET kb == FileRead(hd.tag, have)
                p1 == Min(r1.req - 4, Left(have, 4))
                a2 == Left(have, r1.req)
                tb == FileRead(<<hd.type>>, a2)
                p2 == Min(r2.req - 1, Left(a2, 1))
                a3 == Left(a2, r2.req)
                sb == FileRead(<<hd.size>>, a3)
                p3 == Min(r3.req - 1, Left(a3, 1))
                a4 == Left(a3, r3.req)
                rb == FileRead(hd.repeat, a4)
                p4 == Min(r4.req - 2, Left(a4, 2))
                got == kb \o Zeros(p1) \o tb \o Zeros(p2) \o sb \o Zeros(p3) \o rb \o Zeros(p4)
                key == RStripNul(kb)
                type_code == IF tb = <<NUL>> THEN ContainerType ELSE tb
                size == FromBytes(sb)
                repeat == FromBytes(rb)
                raisedDecode == ~IsAscii(kb) \/ ~IsAscii(tb)
                added == json_add_key(python_json, r4.h, key, type_code, size, repeat)
                fl == [flags EXCEPT !.shortRead = @ \/ have < asked]
            IN /\ eof' = (have < asked)
               /\ file' = file \o got
               /\ requested' = requested + asked
               /\ hdrBytes' = Len(kb) + Len(tb) + Len(sb) + Len(rb)
               /\ lastRead' = [asked |-> asked, dec |-> Decrements(hierarchy, r4.h)]
               /\ closed' = {}
               /\ class' = class
               /\ IF raisedDecode \/ (~(size = 0 /\ repeat = 0) /\ added.raised)
                  THEN /\ pc' = "Failed"
                       /\ hierarchy' = r4.h
                       /\ flags' = fl
                       /\ UNCHANGED <<python_json, starts, origin>>
                  ELSE IF size = 0 /\ repeat = 0
                  THEN /\ pc' = "Done"
                       /\ hierarchy' = r4.h
                       /\ flags' = fl
                       /\ UNCHANGED <<python_json, starts, origin>>
                  ELSE /\ pc' = "Running"
                       /\ hierarchy' = added.h
                       /\ python_json' = added.tree
                       /\ starts' = Append(starts, requested + asked)
                       /\ origin' = Append(origin,
                              [byte |-> tb,
                               node |-> Append(IndexPath(python_json, Names(r4.h)),
                                               Len(ListAt(python_json, Names(r4.h))) + 1)])
                       /\ flags' = [fl EXCEPT
                            !.keys = @ + 1,
                            !.depth = Len(added.h),
                            !.badType = @ \/ (have >= 8 /\ hd.type \notin SupportedBytes \cup {NUL})]

\* the else branch of the loop of main: handle_types, one element of the
\* top frame
HandleTypes ==
    /\ pc = "Running"
    /\ requested <= MaxRequested
    /\ UNCHANGED xvars
    /\ ~HeaderDue(hierarchy)
    /\ LET top == hierarchy[Len(hierarchy)]
           type_code == top.type
           amount == ElementSize(top)
           r == read_bytes(hierarchy, amount)
       IN \E have \in Haves(r.req, 0..amount) :
          \E data \in Payloads(amount, have) :
           LET pads == Min(r.req - amount, Left(have, amount))
               raisedDecode == DecodeRaises(type_code, data)
                               \/ FlattenRaises(Decode(type_code, data))
               added == json_add_value(python_json, r.h, Flatten(Decode(type_code, data)))
               keep == Kept(r.h)
               fl == [flags EXCEPT
                        !.shortRead = @ \/ have < r.req,
                        !.truncated = @ \/ (requested - starts[Len(starts)] + Len(data) < top.total
                                            /\ Len(data) < amount)]
           IN /\ eof' = (have < r.req)
              /\ file' = file \o data \o Zeros(pads)
              /\ requested' = requested + r.req
              /\ lastRead' = [asked |-> r.req, dec |-> Decrements(hierarchy, r.h)]
              /\ UNCHANGED <<class, hdrBytes>>
              /\ IF raisedDecode \/ added.raised
                 THEN /\ pc' = "Failed"
                      /\ hierarchy' = r.h
                      /\ closed' = {}
                      /\ flags' = fl
                      /\ UNCHANGED <<python_json, starts, origin>>
                 ELSE /\ pc' = "Running"
                      /\ python_json' = added.tree
                      /\ hierarchy' = SelectIdx(r.h, keep, 1)
                      /\ starts' = SelectIdx(starts, keep, 1)
                      /\ origin' = SelectIdx(origin, keep, 1)
                      /\ closed' = {[total |-> r.h[i].total,
                                     remaining |-> r.h[i].remaining,
                                     used |-> requested + r.req - starts[i]] :
                                    i \in (1..Len(r.h)) \ keep}
                      /\ flags' = [fl EXCEPT !.shortValue = @ \/ Len(data) < amount]

Next == ReadHeader \/ HandleTypes

Spec == Init /\ [][Next]_vars

\* the decode of the files of leaves of odd sizes; while True: the loop of
\* main takes its next step as long as it has one
LiveInit == Init /\ class = "Sizes"

LiveSpec == LiveInit /\ [][Next]_vars /\ WF_vars(Next)

----------------------------------------------------------------------------
(* Well-formed files, as the format defines them: records that fill their   *)
(* containers exactly, each payload rounded up to 4 bytes, then a sentinel. *)

RECURSIVE RecLen(_, _), RecsFill(_, _, _)

\* the length of the well-formed record that starts at b[i], or -1
RecLen(b, i) ==
    IF i + 7 > Len(b) THEN -1
    ELSE LET t == b[i + 4]
             total == b[i + 5] * (256 * b[i + 6] + b[i + 7])
             len == 8 + Ceil4(total)
         IN IF b[i + 5] = 0 /\ b[i + 6] = 0 /\ b[i + 7] = 0 THEN -1
            ELSE IF i + len - 1 > Len(b) THEN -1
            ELSE IF t \in SupportedBytes THEN len
            ELSE IF t = NUL /\ RecsFill(b, i + 8, total) THEN len
            ELSE -1

\* well-formed records fill b[i .. i+n-1] exactly
RecsFill(b, i, n) ==
    IF n = 0 THEN TRUE
    ELSE LET l == RecLen(b, i)
         IN l > 0 /\ l <= n /\ RecsFill(b, i + l, n - l)

IsSentinel(b, i) == b[i + 5] = 0 /\ b[i + 6] = 0 /\ b[i + 7] = 0

WellFormed(b) ==
    /\ Len(b) >= 8
    /\ IsSentinel(b, Len(b) - 7)
    /\ RecsFill(b, 1, Len(b) - 8)

Terminal == pc \in {"Done", "Failed"}

Pad(f) == Ceil4(f.total) - f.total

\* the payload of f is exhausted and its padding is not yet read
PaddingPending(f) == Pad(f) # 0 /\ 0 < f.remaining /\ f.remaining <= Pad(f)

Top == hierarchy[Len(hierarchy)]

\* the innermost frame has bytes left to read, and every frame around it has
\* at least as many: the record lies within the budgets of its containers
WithinBudgets ==
    /\ Top.remaining > 0
    /\ \A i \in 1..Len(hierarchy) : hierarchy[i].remaining >= Top.remaining

----------------------------------------------------------------------------
(* Claims *)

\* C1: on a well-formed file that ends in a sentinel the decode ends in Done,
\* having consumed every byte of the file: the headers and the padded payloads
C1_NoDrift ==
    Terminal /\ WellFormed(file) => pc = "Done" /\ requested = Len(file)

\* C3: a sentinel header read while a frame is open ends the decode in Failed;
\* Done by a sentinel has an empty stack
C3_SentinelOnlyAtTop ==
    pc = "Done" /\ hdrBytes = 8 => hierarchy = <<>>

\* C4: a header whose type byte is outside the dispatch table and not NUL is
\* never taken for a container: its frame is decoded next, and that fails
C4_UnsupportedFails ==
    flags.badType => pc = "Failed" \/ (pc = "Running" /\ ~HeaderDue(hierarchy))

\* C5: a leaf that declares more bytes than the file holds ends the decode in
\* Failed, and no value decoded from fewer bytes than an element is appended
C5_TruncatedFails ==
    /\ flags.truncated => pc # "Done"
    /\ ~flags.shortValue

\* C6: a read that returns fewer bytes than asked fails the decode, and Done
\* follows a sentinel header of 8 bytes read from the file
C6_ExactReads ==
    /\ flags.shortRead => pc = "Failed"
    /\ pc = "Done" => hdrBytes = 8

\* C7: when a header is about to be read no frame with remaining count zero
\* is on the stack, and every frame removed had remaining count zero
C7_ClosedAtZero ==
    /\ pc = "Running" /\ HeaderDue(hierarchy) /\ ~flags.shortRead =>
          \A i \in 1..Len(hierarchy) : hierarchy[i].remaining # 0
    /\ \A c \in closed : c.remaining = 0

C8_UniformDecrement ==
    \A i \in 1..Len(lastRead.dec) :
        lastRead.dec[i] = lastRead.asked /\ lastRead.dec[i] >= 0

\* a read of one byte with its padding read of three, two frames open
C8_Witness ==
    /\ Len(lastRead.dec) >= 2
    /\ lastRead.asked = 4
    /\ \E c \in closed : c.total = 1

TestFile == DEVC \o <<NUL, 3, 0, 4>> \o GPSU \o <<Chr_c, 1, 0, 4>> \o TEST

Str(v) == [kind |-> "str", v |-> v]

TreeOf(values) ==
    <<[KeyInfo(DEVC, ContainerType, 3, 4) EXCEPT
         !.Values = <<[KeyInfo(GPSU, <<Chr_c>>, 1, 4) EXCEPT !.Values = values]>>]>>

Chars(from, n) == [i \in 1..n |-> Str(<<file[from + i]>>)]

IsLeafNode(x) == x.kind = "key" /\ x.Type # ContainerType

RECURSIVE NoSecondNode(_)
\* no list of the tree holds a leaf node after a node with the same tag
NoSecondNode(list) ==
    \A j \in 1..Len(list) :
        list[j].kind = "key" =>
            /\ IsLeafNode(list[j]) =>
                  \A i \in 1..(j - 1) : ~(list[i].kind = "key" /\ list[i].name = list[j].name)
            /\ NoSecondNode(list[j].Values)

RECURSIVE CountNodes(_), CountFrom(_, _)
CountFrom(list, j) ==
    IF j > Len(list) THEN 0
    ELSE (IF list[j].kind = "key" THEN 1 + CountNodes(list[j].Values) ELSE 0)
         + CountFrom(list, j + 1)

\* the number of nodes of the tree
CountNodes(list) == CountFrom(list, 1)

----------------------------------------------------------------------------
(* Integer leaves *)

Num(n) == [kind |-> "num", v |-> n]

\* the file of the round-trip example: one leaf GPSU of type L, size 4,
\* repeat 3, payload 00000001 00000002 00000003
File123 == GPSU \o <<Chr_L, 4, 0, 3>> \o Word123

\* the big-endian integer of element i, of w bytes, of the payload that starts
\* after index from of the file, read as the type says
ElementOf(type_code, from, w, i) ==
    Unpack(SubSeq(file, from + (i - 1) * w + 1, from + i * w), Signed(type_code), "int")

RECURSIVE IntLeavesFull(_)
\* every node of the list, at any depth, that is an integer leaf whose size is
\* the width of its type and whose repeat is at least 1 holds repeat numbers
IntLeavesFull(list) ==
    \A j \in 1..Len(list) :
        list[j].kind = "key" =>
            IF list[j].Type \in IntTypes
            THEN list[j].Size = Width(list[j].Type) /\ list[j].Repeat >= 1 =>
                    /\ Len(list[j].Values) = list[j].Repeat
                    /\ \A i \in 1..Len(list[j].Values) : list[j].Values[i].kind = "num"
            ELSE IntLeavesFull(list[j].Values)

\* C11: an integer leaf whose size is the width of its type and whose repeat
\* is r >= 1 holds, once decoded, exactly r values, in stream order, each the
\* big-endian integer of its element: the leaf L, 4, 3 with the payload
\* 00000001 00000002 00000003 holds [1, 2, 3]; while such a leaf is open its
\* node holds the integers of the elements read since its header; and when
\* the decode is done every such leaf of the tree holds r numbers
C11_IntegerLeaf ==
    /\ file = File123 /\ requested = Len(File123) =>
          python_json = <<[kind |-> "key", name |-> GPSU, Type |-> <<Chr_L>>, Size |-> 4,
                           Repeat |-> 3, Values |-> <<Num(1), Num(2), Num(3)>>]>>
    /\ pc = "Running" /\ ~HeaderDue(hierarchy) /\ ~flags.shortRead
       /\ Top.type \in IntTypes /\ Top.size = Width(Top.type) /\ Top.repeat >= 1
       /\ Len(hierarchy) = flags.depth
       /\ ~PathRaises(python_json, Names(hierarchy)) =>
          ListAt(python_json, Names(hierarchy))
             = [i \in 1..((requested - starts[Len(starts)]) \div Top.size) |->
                   Num(ElementOf(Top.type, starts[Len(starts)], Top.size, i))]
    /\ pc = "Done" => IntLeavesFull(python_json)

----------------------------------------------------------------------------
(* Element sizes *)

\* the width of a type in the table of types: the width its decoder takes,
\* and 16 for the time stamp U
TableWidth(type_code) == IF type_code = <<Chr_U>> THEN 16 ELSE Width(type_code)

LeafTypes == IntTypes \cup FloatTypes \cup TextTypes

RECURSIVE NoMalformedLeaf(_)
\* no leaf of the list, at any depth, whose size is no multiple of the width
\* of its type holds a value, and none is in the tree when the decode is done
NoMalformedLeaf(list) ==
    \A j \in 1..Len(list) :
        list[j].kind = "key" =>
            IF list[j].Type \in LeafTypes
            THEN list[j].Size % TableWidth(list[j].Type) # 0 =>
                    list[j].Values = <<>> /\ pc # "Done"
            ELSE NoMalformedLeaf(list[j].Values)

\* C12: a leaf whose element size is no multiple of the width of its type
\* ends the decode in Failed, and no value is recorded for it
C12_MalformedFails == NoMalformedLeaf(python_json)

----------------------------------------------------------------------------
(* Budgets *)

\* C13: in every state that is not Failed the remaining count of every frame
\* on the stack is at least 0
C13_NeverNegative ==
    pc # "Failed" => \A i \in 1..Len(hierarchy) : hierarchy[i].remaining >= 0

\* C15: between the header of a leaf and the next header read the payload of
\* the leaf, size x repeat bytes, and its padding are read and no more: while
\* the leaf is on the stack no more than that was read since its header, and
\* nothing when the payload is 0 bytes; a frame that is removed had exactly
\* its padded payload read; and no leaf is on the stack when a header is due
C15_LeafConsumesPayload ==
    /\ pc = "Running" /\ ~HeaderDue(hierarchy) /\ Top.type \in LeafTypes =>
          /\ requested - starts[Len(starts)] <= Ceil4(Top.total)
          /\ Top.total = 0 => requested = starts[Len(starts)]
    /\ \A c \in closed : c.used = Ceil4(c.total)
    /\ pc = "Running" /\ HeaderDue(hierarchy) =>
          \A i \in 1..Len(hierarchy) : hierarchy[i].type \notin LeafTypes

----------------------------------------------------------------------------
(* The path of the open frames *)

\* C16: the traversal of the tree along the names of the open frames ends, at
\* every depth, at the node the header of the frame open at that depth added:
\* a value is appended to the node of the frame on top of the stack
C16_PathOfOpenFrames ==
    pc = "Running" =>
        /\ ~PathRaises(python_json, Names(hierarchy))
        /\ \A d \in 1..Len(hierarchy) :
               IndexPath(python_json, Names(SubSeq(hierarchy, 1, d))) = origin[d].node

\* C17: every frame below the top of the stack is a container whose header
\* had the type byte NUL, so a leaf is on top and the only one; and nothing
\* is read between the header of a container and the next header
C17_LeafOnTop ==
    /\ \A i \in 1..(Len(hierarchy) - 1) :
           hierarchy[i].type = ContainerType /\ origin[i].byte = <<NUL>>
    /\ pc = "Running" /\ HeaderDue(hierarchy) /\ hierarchy # <<>>
       /\ Len(hierarchy) = flags.depth =>
          requested = starts[Len(starts)]

----------------------------------------------------------------------------
(* Termination *)

Trapped ==
    /\ pc = "Running" /\ eof /\ ~HeaderDue(hierarchy)
    /\ Top.type = <<Chr_U>> /\ Top.size > 0
    /\ \A i \in 1..Len(hierarchy) : hierarchy[i].remaining < 0
    /\ ~PathRaises(python_json, Names(hierarchy))

\* a step from such a state leads to such a state: the empty read decodes to
\* a text, the text is appended, no frame is removed
TrappedForever == [][Trapped => Trapped']_vars

----------------------------------------------------------------------------
(* The stream exporter of src/stream_exporter.py.  It loads the tree the    *)
(* decoder dumped (python_json, with the long key names), lists the streams *)
(* of the STRM records of its DEVC records, and exports the one selected.   *)

STRM == <<83, 84, 82, 77>>

STNM == <<83, 84, 78, 77>>

SIUN == <<83, 73, 85, 78>>

UNIT == <<85, 78, 73, 84>>

SCAL == <<83, 67, 65, 76>>

\* the keys that hold the description and the units of a stream
MetaKeys == {STNM, SIUN, UNIT}

\* ''.join(values)
RECURSIVE Join(_)
Join(values) == IF values = <<>> THEN <<>> ELSE values[1].v \o Join(Tail(values))

\* ', '.join(value.rstrip('\x00') for value in unit_values)
RECURSIVE JoinUnits(_)
JoinUnits(values) ==
    IF values = <<>> THEN <<>>
    ELSE IF Len(values) = 1 THEN RStripNul(values[1].v)
    ELSE RStripNul(values[1].v) \o <<44, ChrSpace>> \o JoinUnits(Tail(values))

\* extract_stream_metadata: the items of stream_data from index i on, the
\* name and the unit found so far
RECURSIVE MetaFrom(_, _, _, _)
MetaFrom(stream_data, i, name, unit) ==
    IF i > Len(stream_data) THEN [name |-> name, unit |-> unit]
    ELSE LET item == stream_data[i]
         IN IF KeyIn(STNM, item)
            THEN MetaFrom(stream_data, i + 1, RStripNul(Join(item.Values)), unit)
            ELSE IF KeyIn(SIUN, item)
            THEN MetaFrom(stream_data, i + 1, name, RStripNul(Join(item.Values)))
            ELSE IF KeyIn(UNIT, item)
            THEN MetaFrom(stream_data, i + 1, name, JoinUnits(item.Values))
            ELSE MetaFrom(stream_data, i + 1, name, unit)

extract_stream_metadata(stream_data) == MetaFrom(stream_data, 1, <<>>, <<>>)

\* device["DEVC"] raises KeyError
DeviceRaises(json_data) ==
    \E d \in 1..Len(json_data) : ~(json_data[d].kind = "key" /\ json_data[d].name = DEVC)

\* for device in json_data: for entry in device["DEVC"]["Values"]
RECURSIVE Entries(_)
Entries(json_data) ==
    IF json_data = <<>> THEN <<>> ELSE json_data[1].Values \o Entries(Tail(json_data))

\* "STRM" in entry
IsStream(entry) == KeyIn(STRM, entry)

\* entry["STRM"]["Values"] of the entries that are streams, in order
StreamDatas(json_data) ==
    LET found == SelectSeq(Entries(json_data), IsStream)
    IN [k \in 1..Len(found) |-> found[k].Values]

\* list(stream_data[-1].keys())[0]
StreamName(stream_data) == stream_data[Len(stream_data)].name

\* stream_data[-1] raises IndexError, or .keys() AttributeError
StreamNameRaises(stream_data) ==
    stream_data = <<>> \/ stream_data[Len(stream_data)].kind # "key"

\* any(stream_name in stream for stream in streams), a stream being the list
\* [stream_name, name, 0, unit]
Listed(strms, stream_name) ==
    \E j \in 1..Len(strms) :
        \/ strms[j].tag = stream_name
        \/ strms[j].name = stream_name
        \/ strms[j].unit = stream_name

\* increment_stream_count
increment_stream_count(strms, stream_name) ==
    [j \in 1..Len(strms) |->
        IF strms[j].tag = stream_name THEN [strms[j] EXCEPT !.count = @ + 1]
        ELSE strms[j]]

\* the loop of extract_streams over the stream records from index i on
RECURSIVE ExtractFrom(_, _, _)
ExtractFrom(datas, i, strms) ==
    IF i > Len(datas) THEN strms
    ELSE LET stream_name == StreamName(datas[i])
             meta == extract_stream_metadata(datas[i])
         IN ExtractFrom(datas, i + 1,
               IF ~Listed(strms, stream_name)
               THEN Append(strms, [tag |-> stream_name, name |-> meta.name,
                                   count |-> 0, unit |-> meta.unit])
               ELSE increment_stream_count(strms, stream_name))

extract_streams(json_data) == ExtractFrom(StreamDatas(json_data), 1, <<>>)

\* extract_streams raises
ExtractRaises(json_data) ==
    \/ DeviceRaises(json_data)
    \/ \E k \in 1..Len(StreamDatas(json_data)) : StreamNameRaises(StreamDatas(json_data)[k])

\* stream_name in entry["STRM"]["Values"][-1]
HasTag(stream_data, stream_name) == KeyIn(stream_name, stream_data[Len(stream_data)])

\* the stream records the two loops of create_output_json visit, in order
MatchingDatas(json_data, stream_name) ==
    LET all == StreamDatas(json_data)
        idx == {k \in 1..Len(all) : HasTag(all[k], stream_name)}
    IN SelectIdx(all, idx, 1)

\* the keys extract_keys_and_data collects from one stream record
KeysOf(stream_data) ==
    {stream_data[i].name : i \in 1..Len(stream_data)} \ MetaKeys

\* extract_keys_and_data: the keys of output_json["data"], taken from the
\* first matching record that has any (if not keys)
RECURSIVE DataKeysFrom(_, _)
DataKeysFrom(datas, k) ==
    IF k > Len(datas) THEN {}
    ELSE IF KeysOf(datas[k]) # {} THEN KeysOf(datas[k]) \ {SCAL}
    ELSE DataKeysFrom(datas, k + 1)

extract_keys_and_data(datas) == DataKeysFrom(datas, 1)

\* the scale of fill_stream_data: None, or the values of the first SCAL item
NoScales == [set |-> FALSE, v |-> <<>>]

FindScales(stream_data, scales) ==
    LET idx == {i \in 1..Len(stream_data) : KeyIn(SCAL, stream_data[i])}
    IN IF scales.set \/ idx = {} THEN scales
       ELSE [set |-> TRUE,
             v |-> stream_data[CHOOSE i \in idx : \A j \in idx : i <= j].Values]

\* round(value / scale, 6), in millionths: the nearest, the even one of two
\* equally near
Div6(value, scale) ==
    LET d == IF scale < 0 THEN 0 - scale ELSE scale
        n == IF scale < 0 THEN 0 - value * 1000000 ELSE value * 1000000
        q == n \div d
        r == n % d
    IN IF 2 * r < d THEN q
       ELSE IF 2 * r > d THEN q + 1
       ELSE IF q % 2 = 0 THEN q ELSE q + 1

\* scale_values raises: enumerate(entry) on a bare number, a character or a
\* key of a dict divided, a division by a list or by zero
ScaleRaises(values, scales) ==
    \E n \in 1..Len(values) :
        \/ values[n].kind = "num"
        \/ values[n].kind = "str" /\ values[n].v # <<>>
        \/ values[n].kind = "key"
        \/ /\ values[n].kind = "list"
           /\ \E i \in 1..Len(values[n].v) :
                 LET s == scales[((i - 1) % Len(scales)) + 1]
                 IN s.kind # "num" \/ s.v = 0

\* scale_values: one list of rounded quotients per entry
scale_values(values, scales) ==
    [n \in 1..Len(values) |->
        [kind |-> "scaled",
         v |-> [i \in 1..Len(values[n].v) |->
                   Div6(values[n].v[i], scales[((i - 1) % Len(scales)) + 1].v)]]]

\* the second loop of fill_stream_data over the items of one record from
\* index i on; acc is [raised, data]
RECURSIVE FillItems(_, _, _, _, _)
FillItems(stream_data, i, stream_name, scales, acc) ==
    IF acc.raised \/ i > Len(stream_data) THEN acc
    ELSE LET item == stream_data[i]
             key == item.name
         IN IF key \in MetaKeys \cup {SCAL}
            THEN FillItems(stream_data, i + 1, stream_name, scales, acc)
            ELSE IF key = stream_name /\ scales.set /\ scales.v # <<>>
            THEN IF key \notin DOMAIN acc.data \/ ScaleRaises(item.Values, scales.v)
                 THEN [acc EXCEPT !.raised = TRUE]
                 ELSE FillItems(stream_data, i + 1, stream_name, scales,
                        [acc EXCEPT !.data[key] =
                             Append(@, scale_values(item.Values, scales.v))])
            ELSE IF key \notin DOMAIN acc.data
                 THEN [acc EXCEPT !.raised = TRUE]
                 ELSE FillItems(stream_data, i + 1, stream_name, scales,
                        [acc EXCEPT !.data[key] = Append(@, item.Values)])

\* fill_stream_data over the matching records from index k on
RECURSIVE FillFrom(_, _, _, _, _)
FillFrom(datas, k, stream_name, scales, acc) ==
    IF acc.raised \/ k > Len(datas) THEN acc
    ELSE LET found == FindScales(datas[k], scales)
         IN FillFrom(datas, k + 1, stream_name, found,
                     FillItems(datas[k], 1, stream_name, found, acc))

fill_stream_data(datas, stream_name, keys) ==
    FillFrom(datas, 1, stream_name, NoScales,
             [raised |-> FALSE, data |-> [key \in keys |-> <<>>]])

\* create_output_json: the exported object, or raised
create_output_json(stream, json_data) ==
    LET datas == MatchingDatas(json_data, stream.tag)
        filled == fill_stream_data(datas, stream.tag, extract_keys_and_data(datas))
    IN [raised |-> filled.raised,
        json |-> [name |-> stream.tag, description |-> stream.name,
                  seconds_recorded |-> stream.count, unit |-> stream.unit,
                  data |-> filled.data]]

----------------------------------------------------------------------------
(* The trees the exporter is run on: one DEVC record holding up to          *)
(* MaxStreams STRM records, each a description (STNM, one character per     *)
(* value), a TSMP count, a SCAL leaf and, last, the leaf of the stream's    *)
(* own tag, all as the decoder stores them: a sample of one number is a     *)
(* bare number, a sample of several is a list.                              *)

MaxStreams == 2

ACCL == <<65, 67, 67, 76>>

GYRO == <<71, 89, 82, 79>>

TSMP == <<84, 83, 77, 80>>

\* a node with its values
Node(key_name, key_type, key_size, values) ==
    [KeyInfo(key_name, key_type, key_size, Len(values)) EXCEPT !.Values = values]

\* a text as the decoder stores it, one character per value
Texts(s) == [i \in 1..Len(s) |-> Str(<<s[i]>>)]

Nums(s) == [i \in 1..Len(s) |-> Num(s[i])]

\* the values of the leaf of the stream's tag: bare numbers, one list of two
\* numbers, two lists of three numbers
SampleChoices ==
    {<<Num(6), Num(3)>>,
     <<[kind |-> "list", v |-> <<6, 3>>]>>,
     <<[kind |-> "list", v |-> <<6, 3, 8>>], [kind |-> "list", v |-> <<0 - 2, 4, 7>>]>>}

ScaleChoices == {<<>>, <<2>>, <<2, 3>>}

NameChoices == {<<>>, GYRO}

RecordChoices ==
    [tag : {ACCL, GYRO}, stnm : NameChoices, samples : SampleChoices]

\* one STRM record
StreamNode(rec, scal, tsmp) ==
    Node(STRM, ContainerType, 1,
         (IF rec.stnm = <<>> THEN <<>> ELSE <<Node(STNM, <<Chr_c>>, 1, Texts(rec.stnm))>>)
         \o (IF tsmp THEN <<Node(TSMP, <<Chr_L>>, 4, <<Num(5)>>)>> ELSE <<>>)
         \o (IF scal = <<>> THEN <<>> ELSE <<Node(SCAL, <<Chr_s>>, 2, Nums(scal))>>)
         \o <<Node(rec.tag, IF rec.samples[1].kind = "num" THEN <<Chr_L>> ELSE <<Chr_s>>,
                   IF rec.samples[1].kind = "num" THEN 4 ELSE 2 * Len(rec.samples[1].v),
                   rec.samples)>>)

DeviceTree(recs, scal, tsmp) ==
    <<Node(DEVC, ContainerType, 1,
           [k \in 1..Len(recs) |-> StreamNode(recs[k], scal, tsmp)])>>

Trees ==
    {DeviceTree(recs, scal, tsmp) :
        recs \in UNION {SeqsOf(RecordChoices, n) : n \in 0..MaxStreams},
        scal \in ScaleChoices, tsmp \in BOOLEAN}

\* main of the exporter after load_json: python_json is the loaded json_data
ExportInit ==
    /\ pc = "Done"
    /\ hierarchy = <<>>
    /\ python_json \in Trees
    /\ eof = TRUE
    /\ class = "Well"
    /\ file = <<>>
    /\ requested = 0
    /\ starts = <<>>
    /\ origin = <<>>
    /\ closed = {}
    /\ lastRead = [asked |-> 0, dec |-> <<>>]
    /\ hdrBytes = 0
    /\ flags = NoFlags
    /\ xpc = "Loaded"
    /\ streams = <<>>
    /\ output_json = <<>>

\* main: extract_streams, the test for no streams, display_streams
ListStreams ==
    /\ xpc = "Loaded"
    /\ IF ExtractRaises(python_json)
       THEN xpc' = "Failed" /\ streams' = streams
       ELSE /\ streams' = extract_streams(python_json)
            /\ xpc' = IF streams' = <<>> THEN "NoData" ELSE "Listed"
    /\ UNCHANGED output_json
    /\ UNCHANGED pvars

\* main: get_user_selected_stream returns one of the listed streams, then
\* create_output_json and save_json
ExportStream ==
    /\ xpc = "Listed"
    /\ \E j \in 1..Len(streams) :
          LET out == create_output_json(streams[j], python_json)
          IN IF out.raised
             THEN xpc' = "Failed" /\ output_json' = output_json
             ELSE xpc' = "Exported" /\ output_json' = out.json
    /\ UNCHANGED streams
    /\ UNCHANGED pvars

ExportNext == ListStreams \/ ExportStream

ExportSpec == ExportInit /\ [][ExportNext]_vars

----------------------------------------------------------------------------
\* C19: once extract_streams has scanned every DEVC record, the counter of
\* each listed stream equals the number of STRM records whose last child
\* carries that stream's tag, and each distinct tag is listed exactly once.

\* the number of STRM records whose last child carries the tag
RecordsOf(stream_name) ==
    Cardinality({k \in 1..Len(StreamDatas(python_json)) :
                    StreamName(StreamDatas(python_json)[k]) = stream_name})

\* the tags of the STRM records
TagsOf(json_data) ==
    {StreamName(StreamDatas(json_data)[k]) : k \in 1..Len(StreamDatas(json_data))}

C19_CountsRecords ==
    xpc = "Listed" =>
        /\ \A j \in 1..Len(streams) : streams[j].count = RecordsOf(streams[j].tag)
        /\ \A t \in TagsOf(python_json) :
              Cardinality({j \in 1..Len(streams) : streams[j].tag = t}) = 1

----------------------------------------------------------------------------
\* C14: for the selected stream and every sample the tree can hold for it,
\* lists and bare numbers alike, the exported component i of each sample is
\* the raw component divided by scales[i mod len(scales)], scales being the
\* values of the stream's SCAL leaf; the other keys are exported unscaled.

\* the components of a sample
Components(sample) == IF sample.kind = "list" THEN sample.v ELSE <<sample.v>>

\* the values of the item of this key in a stream record
ValuesOf(stream_data, key) ==
    stream_data[CHOOSE i \in 1..Len(stream_data) : stream_data[i].name = key].Values

\* the numbers of the SCAL leaf of the stream, <<>> without one
ScalesOf(datas) ==
    LET with == {k \in 1..Len(datas) : \E i \in 1..Len(datas[k]) : datas[k][i].name = SCAL}
    IN IF with = {} THEN <<>>
       ELSE ValuesOf(datas[CHOOSE k \in with : \A m \in with : k <= m], SCAL)

\* micro millionths is raw / scale to the sixth decimal
IsQuotient(micro, raw, scale) ==
    LET d == micro * scale - raw * 1000000
    IN 2 * (IF d < 0 THEN 0 - d ELSE d) <= (IF scale < 0 THEN 0 - scale ELSE scale)

\* the exported samples of one record are the raw ones divided cyclically
ScaledAs(out, raw, scales) ==
    /\ Len(out) = Len(raw)
    /\ \A n \in 1..Len(raw) :
          /\ Len(out[n].v) = Len(Components(raw[n]))
          /\ \A i \in 1..Len(Components(raw[n])) :
                IsQuotient(out[n].v[i], Components(raw[n])[i],
                           scales[((i - 1) % Len(scales)) + 1].v)

\* the export of a listed stream was attempted
ExportEnded == xpc = "Exported" \/ (xpc = "Failed" /\ streams # <<>>)

C14_ScaledCyclically ==
    ExportEnded =>
        /\ xpc = "Exported"
        /\ LET tag == output_json.name
               datas == MatchingDatas(python_json, tag)
               scales == ScalesOf(datas)
           IN /\ Len(output_json.data[tag]) = Len(datas)
              /\ \A k \in 1..Len(datas) :
                    IF scales = <<>>
                    THEN output_json.data[tag][k] = ValuesOf(datas[k], tag)
                    ELSE ScaledAs(output_json.data[tag][k], ValuesOf(datas[k], tag), scales)
              /\ \A key \in (DOMAIN output_json.data) \ {tag} :
                    \A k \in 1..Len(datas) :
                        output_json.data[key][k] = ValuesOf(datas[k], key)

====
